---- MODULE Spec2Model ----
(***************************************************************************)
(* A state-machine model of yt-spanish.py: run_download and the functions  *)
(* it calls (get_video_info_cli, select_streams, interactive_select,       *)
(* download_and_process).                                                  *)
(*                                                                         *)
(* Representation.  Text that the code inspects character by character     *)
(* (an input line, the quality string, a language tag, a track name) is a  *)
(* sequence of one-character strings.  A Python dict is a record whose     *)
(* DOMAIN holds exactly the keys that are present, so d.get(k, default)    *)
(* is Get(d, k, default).  An Optional value is <<>> (None) or <<v>>.      *)
(***************************************************************************)
EXTENDS Integers, Sequences, FiniteSets, TLC

VARIABLES
    pc,                     \* where run_download is
    url_valid,              \* whether youtube_regex matches the url argument
    quality,                \* the quality argument: <<>> (None) or <<string>>
    browser_idx,            \* index into browsers_to_try of the next attempt
    successful_browser,     \* <<>> or <<browser>>
    video_info,             \* <<>> before the fetch, <<document>> after
    video_streams,          \* select_streams: the sorted video candidates
    selected_video,         \* <<>> or <<format>>
    audio_streams,          \* select_streams: the sorted audio candidates
    selected_audio_id,      \* <<>> (None) or <<format_id>>
    subtitle_list,          \* select_streams: the subtitle candidates
    selected_subtitle_lang, \* <<>> (None) or <<language tag>>
    prompts,                \* stream types whose selection table was printed
    choice_str,             \* the input line on which the last call returned
    tries,                  \* inputs rejected so far by the running call
    stdin_eof,              \* whether input() has hit the end of standard input
    command,                \* <<>> or <<the yt-dlp command>>
    popen_calls,            \* how many times the download command was started
    returncode,             \* <<>> or <<exit code of the download command>>
    stderr,                 \* the diagnostics printed to sys.stderr
    exit_status             \* <<>> while running, <<status>> once terminated

vars == <<pc, url_valid, quality, browser_idx, successful_browser, video_info,
          video_streams, selected_video, audio_streams, selected_audio_id,
          subtitle_list, selected_subtitle_lang, prompts, choice_str, tries,
          stdin_eof, command, popen_calls, returncode, stderr, exit_status>>

----------------------------------------------------------------------------
(* Bounds of the model. *)

\* longest input line typed at a prompt
MaxLineLen == 2
\* rejected inputs followed within one interactive_select call
MaxTries == 2
\* audio-only formats in a metadata document of a whole run
MaxAudioFormats == 2
\* formats in a metadata document given to the video selector alone
MaxVideoFormats == 2
\* language tags in the subtitle mappings given to the subtitle builder alone
MaxSubTags == 2

----------------------------------------------------------------------------
(* Python built-ins the code relies on. *)

None == <<>>
Some(v) == <<v>>

\* dict.get(k, default)
Get(d, k, default) == IF k \in DOMAIN d THEN d[k] ELSE default

\* k in d
HasKey(d, k) == k \in DOMAIN d

Digits == {"0", "1", "2", "3", "4", "5", "6", "7", "8", "9"}

DigitVal(c) ==
    CASE c = "0" -> 0 [] c = "1" -> 1 [] c = "2" -> 2 [] c = "3" -> 3
      [] c = "4" -> 4 [] c = "5" -> 5 [] c = "6" -> 6 [] c = "7" -> 7
      [] c = "8" -> 8 [] c = "9" -> 9

\* ord(c), for the characters the model uses
Ord(c) ==
    CASE c = " " -> 32 [] c = "+" -> 43 [] c = "-" -> 45
      [] c \in Digits -> 48 + DigitVal(c)
      [] c = "_" -> 95
      [] c = "a" -> 97 [] c = "e" -> 101 [] c = "f" -> 102 [] c = "i" -> 105
      [] c = "l" -> 108 [] c = "n" -> 110 [] c = "p" -> 112 [] c = "s" -> 115
      [] c = "z" -> 122

\* str < str: lexicographic by code point, a proper prefix is smaller
RECURSIVE StrLess(_, _)
StrLess(a, b) ==
    IF b = <<>> THEN FALSE
    ELSE IF a = <<>> THEN TRUE
    ELSE IF Head(a) = Head(b) THEN StrLess(Tail(a), Tail(b))
    ELSE Ord(Head(a)) < Ord(Head(b))

\* the value of a non-empty string of decimal digits
RECURSIVE DecVal(_)
DecVal(ds) ==
    IF ds = <<>> THEN 0
    ELSE 10 * DecVal(SubSeq(ds, 1, Len(ds) - 1)) + DigitVal(ds[Len(ds)])

IsDigit(c) == c \in Digits

IsSpace(c) == c = " "

\* str.strip()
RECURSIVE LStrip(_)
LStrip(s) ==
    IF s # <<>> /\ IsSpace(Head(s)) THEN LStrip(Tail(s)) ELSE s

RECURSIVE RStrip(_)
RStrip(s) ==
    IF s # <<>> /\ IsSpace(s[Len(s)]) THEN RStrip(SubSeq(s, 1, Len(s) - 1)) ELSE s

Strip(s) == RStrip(LStrip(s))

AllDigits(s) == \A i \in 1..Len(s) : IsDigit(s[i])

\* int(s): surrounding whitespace is ignored, one sign is allowed, then at
\* least one digit.  ok = FALSE stands for ValueError.
ParseInt(s) ==
    LET t == Strip(s)
        signed == t # <<>> /\ Head(t) \in {"+", "-"}
        body == IF signed THEN Tail(t) ELSE t
    IN  IF body # <<>> /\ AllDigits(body)
        THEN [ok |-> TRUE,
              val |-> IF signed /\ Head(t) = "-" THEN 0 - DecVal(body) ELSE DecVal(body)]
        ELSE [ok |-> FALSE, val |-> 0]

\* all sequences over S of length at most n
SeqsUpTo(S, n) == UNION {[1..k -> S] : k \in 0..n}

----------------------------------------------------------------------------
(* select_streams: the video track. *)

\* the value d.get(k) returns for an absent key, where the code compares it
\* with the codec sentinel 'none'
PyNone == "<None>"

\* f.get('vcodec') != 'none' and f.get('acodec') == 'none'
IsVideoOnly(f) == Get(f, "vcodec", PyNone) # "none" /\ Get(f, "acodec", PyNone) = "none"

\* f.get('vcodec') != 'none'
IsVideoBearing(f) == Get(f, "vcodec", PyNone) # "none"

\* a fallback that takes every format, video-bearing or not
VideoCandidatesAnyFormat(formats) ==
    LET video_only == SelectSeq(formats, IsVideoOnly)
    IN  IF video_only = <<>> THEN formats ELSE video_only

\* the video-only formats, or every video-bearing format when there are none
VideoCandidates(formats) ==
    LET video_only == SelectSeq(formats, IsVideoOnly)
    IN  IF video_only = <<>> THEN SelectSeq(formats, IsVideoBearing) ELSE video_only

\* `if quality:` -- None and the empty string are both false
QualityGiven(q) == q # None /\ q[1] # <<>>

\* re.sub(r'\D', '', quality)
QualityDigits(q) == SelectSeq(q[1], IsDigit)

\* int('') raises ValueError
QualityInvalid(q) == QualityGiven(q) /\ QualityDigits(q) = <<>>

\* quality_val
QualityVal(q) == DecVal(QualityDigits(q))

\* f.get('height') == quality_val
HasHeight(f, h) == HasKey(f, "height") /\ f["height"] = h

\* quality_streams
QualityStreams(vs, q) == SelectSeq(vs, LAMBDA f : HasHeight(f, QualityVal(q)))

\* a quality constraint used as a hard requirement
QualityFilterStrict(vs, q) ==
    IF QualityGiven(q) /\ ~QualityInvalid(q) THEN QualityStreams(vs, q) ELSE vs

\* the candidate list after the `if quality:` block
QualityFilter(vs, q) ==
    IF QualityGiven(q) /\ ~QualityInvalid(q) /\ QualityStreams(vs, q) # <<>>
    THEN QualityStreams(vs, q)
    ELSE vs

\* what the `if quality:` block prints to stderr
QualityWarnings(vs, q) ==
    IF ~QualityGiven(q) THEN {}
    ELSE IF QualityInvalid(q) THEN {"quality_invalid"}
    ELSE IF QualityStreams(vs, q) = <<>> THEN {"quality_not_found"}
    ELSE {}

\* the sort key (f.get('height', 0), f.get('fps', 0), f.get('tbr', 0))
VideoKey(f) == <<Get(f, "height", 0), Get(f, "fps", 0), Get(f, "tbr", 0)>>

\* tuple < tuple
RECURSIVE TupleLess(_, _)
TupleLess(a, b) ==
    IF b = <<>> THEN FALSE
    ELSE IF a = <<>> THEN TRUE
    ELSE IF Head(a) = Head(b) THEN TupleLess(Tail(a), Tail(b))
    ELSE Head(a) < Head(b)

\* an unstable order: an equal key overtakes too
VideoBeforeOrTied(f, g) == ~TupleLess(VideoKey(f), VideoKey(g))

\* whether f goes before g when f comes later in the list: list.sort is
\* stable also with reverse=True, so only a strictly larger key overtakes
VideoBefore(f, g) == TupleLess(VideoKey(g), VideoKey(f))

\* the position at which f enters an already sorted prefix
RECURSIVE VideoSlot(_, _, _)
VideoSlot(sorted, f, i) ==
    IF i > Len(sorted) THEN i
    ELSE IF VideoBefore(f, sorted[i]) THEN i
    ELSE VideoSlot(sorted, f, i + 1)

InsertAt(s, i, x) == SubSeq(s, 1, i - 1) \o <<x>> \o SubSeq(s, i, Len(s))

\* video_streams.sort(key=..., reverse=True)
RECURSIVE SortVideo(_)
SortVideo(vs) ==
    IF vs = <<>> THEN <<>>
    ELSE LET front == SortVideo(SubSeq(vs, 1, Len(vs) - 1))
             f == vs[Len(vs)]
         IN  InsertAt(front, VideoSlot(front, f, 1), f)

\* video_streams as it stands at line 238
RankedVideo(formats, q) == SortVideo(QualityFilter(VideoCandidates(formats), q))

\* selected_video = video_streams[0] if video_streams else None
FirstOrNone(s) == IF s = <<>> THEN None ELSE Some(s[1])

----------------------------------------------------------------------------
(* select_streams: the audio candidates. *)

\* f.get('acodec') != 'none' and f.get('vcodec') == 'none'
IsAudioOnly(f) == Get(f, "acodec", PyNone) # "none" /\ Get(f, "vcodec", PyNone) = "none"

\* f.get('acodec') != 'none'
IsAudioBearing(f) == Get(f, "acodec", PyNone) # "none"

AudioCandidates(formats) ==
    LET audio_only == SelectSeq(formats, IsAudioOnly)
    IN  IF audio_only = <<>> THEN SelectSeq(formats, IsAudioBearing) ELSE audio_only

\* the sort key (f.get('language', 'zz'), -f.get('abr', 0)), compared
AudioKeyLess(f, g) ==
    LET lf == Get(f, "language", <<"z", "z">>)
        lg == Get(g, "language", <<"z", "z">>)
    IN  IF lf # lg THEN StrLess(lf, lg)
        ELSE (0 - Get(f, "abr", 0)) < (0 - Get(g, "abr", 0))

RECURSIVE AudioSlot(_, _, _)
AudioSlot(sorted, f, i) ==
    IF i > Len(sorted) THEN i
    ELSE IF AudioKeyLess(f, sorted[i]) THEN i
    ELSE AudioSlot(sorted, f, i + 1)

\* audio_streams.sort(key=...)
RECURSIVE SortAudio(_)
SortAudio(as) ==
    IF as = <<>> THEN <<>>
    ELSE LET front == SortAudio(SubSeq(as, 1, Len(as) - 1))
             f == as[Len(as)]
         IN  InsertAt(front, AudioSlot(front, f, 1), f)

----------------------------------------------------------------------------
(* select_streams: the subtitle candidates. *)

Range(s) == {s[i] : i \in 1..Len(s)}

\* the length test off by one
ExcludedFromThree(lang) == Len(lang) >= 3 /\ "-" \notin Range(lang)

\* len(lang) > 3 and '-' not in lang
Excluded(lang) == Len(lang) > 3 /\ "-" \notin Range(lang)

\* sorted(list(all_sub_langs))
RECURSIVE SortedLangs(_)
SortedLangs(S) ==
    IF S = {} THEN <<>>
    ELSE LET least == CHOOSE x \in S : \A y \in S \ {x} : StrLess(x, y)
         IN  <<least>> \o SortedLangs(S \ {least})

ManualMark == <<" ", "(", "m", "a", "n", "u", "a", "l", ")">>
AutoMark == <<" ", "(", "a", "u", "t", "o", ")">>

\* which mapping the loop body reads for lang
FromManual(lang, subtitles_data) == lang \in DOMAIN subtitles_data

\* the track list the loop body indexes with [0]
TrackList(lang, subtitles_data, auto_captions_data) ==
    IF FromManual(lang, subtitles_data) THEN subtitles_data[lang]
    ELSE auto_captions_data[lang]

\* sub after sub['lang_code'] = lang and sub['name'] = sub.get('name', lang) + mark
SubtitleEntry(lang, subtitles_data, auto_captions_data) ==
    LET sub == TrackList(lang, subtitles_data, auto_captions_data)[1]
        mark == IF FromManual(lang, subtitles_data) THEN ManualMark ELSE AutoMark
    IN  ("lang_code" :> lang) @@ ("name" :> (Get(sub, "name", lang) \o mark)) @@ sub

\* the tags the loop does not skip, in loop order
RetainedLangs(subtitles_data, auto_captions_data) ==
    SelectSeq(SortedLangs(DOMAIN subtitles_data \union DOMAIN auto_captions_data),
              LAMBDA lang : ~Excluded(lang))

\* [0] on an empty track list raises IndexError
SubtitleIndexError(subtitles_data, auto_captions_data) ==
    \E lang \in Range(RetainedLangs(subtitles_data, auto_captions_data)) :
        TrackList(lang, subtitles_data, auto_captions_data) = <<>>

\* subtitle_list as it stands at line 273
BuildSubtitleList(subtitles_data, auto_captions_data) ==
    LET langs == RetainedLangs(subtitles_data, auto_captions_data)
    IN  [i \in 1..Len(langs) |-> SubtitleEntry(langs[i], subtitles_data, auto_captions_data)]

\* a dict with no keys
EmptyDict == [k \in {} |-> <<>>]

----------------------------------------------------------------------------
(* interactive_select: what one pass of the `while True:` loop does with  *)
(* the line input() returned.                                             *)

\* `if not choice_str.strip():`
IsBlankInput(line) == Strip(line) = <<>>

\* `choice = int(choice_str)` raises ValueError
IsValueError(line) == ~IsBlankInput(line) /\ ~ParseInt(line).ok

\* `if choice == 0:`
IsSkip(choice) == choice = 0

\* the range check with its lower bound left out
InRangeNoLowerBound(choice, n) == choice <= n

\* `1 <= choice <= len(streams)`
InRange(choice, n) == 1 <= choice /\ choice <= n

\* list[i] for a Python index i: a negative index counts from the end
PyIndexOk(n, i) == 0 - n <= i /\ i < n
PyIndex(s, i) == IF i >= 0 THEN s[i + 1] ELSE s[Len(s) + i + 1]

\* choice reaches `raise IndexError`, or streams[choice - 1] raises it
RaisesIndexError(choice, n) ==
    ~IsSkip(choice) /\ (~InRange(choice, n) \/ ~PyIndexOk(n, choice - 1))

\* choice reaches `selected_stream = streams[choice - 1]` and gets a stream
Chooses(choice, n) ==
    ~IsSkip(choice) /\ InRange(choice, n) /\ PyIndexOk(n, choice - 1)

\* streams[choice - 1]
SelectedStream(streams, choice) == PyIndex(streams, choice - 1)

\* selected_stream['format_id'] for audio, selected_stream['lang_code'] for subtitles
StreamIdentifier(stream, stream_type) ==
    IF stream_type = "audio" THEN stream["format_id"] ELSE stream["lang_code"]

----------------------------------------------------------------------------
(* download_and_process: the format selector. *)

\* `if audio_id:` -- None and the empty string are both false
AudioChosen(audio_id) == audio_id # None /\ audio_id[1] # ""

\* a selector that asks for the video track alone when no audio was chosen
FormatSelectorVideoAlone(video_id, audio_id) ==
    IF AudioChosen(audio_id) THEN video_id \o "+" \o audio_id[1] ELSE video_id

\* the argument that follows "-f"
FormatSelector(video_id, audio_id) ==
    IF AudioChosen(audio_id) THEN video_id \o "+" \o audio_id[1]
    ELSE video_id \o "+" \o "bestaudio"

\* the parts of the command list that depend on the selection
BuildCommand(video, audio_id, subtitle_lang, browser) ==
    [program |-> "yt_dlp",
     cookies_from_browser |-> browser,
     f |-> FormatSelector(video["format_id"], audio_id),
     sub_lang |-> subtitle_lang,
     embed_subs |-> subtitle_lang # None /\ subtitle_lang[1] # <<>>,
     merge_output_format |-> "mp4"]

----------------------------------------------------------------------------
(* The inputs of a run. *)

browsers_to_try == <<"chrome", "firefox", "brave", "edge", "opera", "vivaldi", "safari">>

\* the browsers whose cookie store yt-dlp can read on the machine of the run;
\* with any other browser the attempt raises and the loop goes on
InstalledBrowsers == {"chrome", "safari"}

Es == <<"e", "s">>
En == <<"e", "n">>

FormatId(i) == "f" \o ToString(i)

\* the formats list made of the given descriptors, with ids unique in the list
WithIds(kinds) == [i \in 1..Len(kinds) |-> ("format_id" :> FormatId(i)) @@ kinds[i]]

\* an Optional field: present with one of the values, or absent
OptField(k, values) == {EmptyDict} \union {(k :> v) : v \in values}

\* subtitle tracks as they stand in the metadata
ManualVtt == [ext |-> "vtt", name |-> <<"E", "s">>]
ManualSrt == [ext |-> "srt"]
AutoVtt == [ext |-> "vtt"]
AutoJson == [ext |-> "json3", name |-> <<"E", "s">>]

\* Descriptors of a whole run: a video-only track and two audio-only tracks.
RunVideoKinds == {[vcodec |-> "avc1", acodec |-> "none", height |-> 1]}

RunAudioKinds ==
    { [vcodec |-> "none", acodec |-> "mp4a", language |-> Es, abr |-> 1],
      [vcodec |-> "none", acodec |-> "mp4a", language |-> En, abr |-> 2] }

\* One combined track, and nothing else: both fallbacks of the normalizer.
CombinedOnly == <<[vcodec |-> "avc1", acodec |-> "mp4a", height |-> 2, abr |-> 1]>>

\* at most one video-only track, then some audio-only tracks
RunFormats ==
    {WithIds(k) :
        k \in {v \o a : v \in SeqsUpTo(RunVideoKinds, 1),
                        a \in SeqsUpTo(RunAudioKinds, MaxAudioFormats)}
              \union {CombinedOnly}}

\* The subtitle part of a document: the two keys absent, or both present.
RunSubs ==
    { EmptyDict,
      [subtitles |-> (Es :> <<ManualVtt>>), automatic_captions |-> EmptyDict],
      [subtitles |-> EmptyDict,
       automatic_captions |-> (Es :> <<AutoVtt>>) @@ (En :> <<AutoJson, AutoVtt>>)],
      [subtitles |-> (Es :> <<>>), automatic_captions |-> (Es :> <<AutoVtt>>)] }

Title == [title |-> <<"t">>]

\* the documents yt-dlp --dump-json may print in a whole run
RunDocs ==
    {Title @@ [formats |-> fs] @@ subs : fs \in RunFormats, subs \in RunSubs}
        \union {Title, EmptyDict}

RunQualities == {None, Some(<<"1", "p">>)}

\* the characters of an input line
LineChars == {"0", "1", "2", "3", "-", " ", "a"}

\* the lines the user may type at a prompt
Lines == SeqsUpTo(LineChars, MaxLineLen)

\* the lines that take `if not choice_str.strip():`
BlankLines == {line \in Lines : IsBlankInput(line)}

\* the lines on which int(choice_str) raises ValueError
ValueErrorLines == {line \in Lines : IsValueError(line)}

\* the lines that get past `choice = int(choice_str)`, and the choice they give
NumericLines == Lines \ (BlankLines \union ValueErrorLines)
ChoiceOf == [line \in NumericLines |-> ParseInt(line).val]

StreamTypes == {"audio", "subtitulo"}

----------------------------------------------------------------------------
(* run_download, step by step. *)

Init ==
    /\ pc = "run_download"
    /\ url_valid \in BOOLEAN
    /\ quality \in RunQualities
    /\ browser_idx = 1
    /\ successful_browser = None
    /\ video_info = None
    /\ video_streams = <<>>
    /\ selected_video = None
    /\ audio_streams = <<>>
    /\ selected_audio_id = None
    /\ subtitle_list = <<>>
    /\ selected_subtitle_lang = None
    /\ prompts = {}
    /\ choice_str = <<>>
    /\ tries = 0
    /\ stdin_eof = FALSE
    /\ command = None
    /\ popen_calls = 0
    /\ returncode = None
    /\ stderr = {}
    /\ exit_status = None

\* sys.exit(status), or an uncaught exception (status 1, traceback on stderr)
Exit(status, diagnostics) ==
    /\ pc' = "exited"
    /\ exit_status' = Some(status)
    /\ stderr' = stderr \union diagnostics

SelectionVars == <<video_streams, selected_video, audio_streams, selected_audio_id,
                   subtitle_list, selected_subtitle_lang>>
PromptVars == <<prompts, choice_str, tries, stdin_eof>>
ExecVars == <<command, popen_calls, returncode>>
FetchVars == <<browser_idx, successful_browser, video_info>>
ArgVars == <<url_valid, quality>>

UrlRejected ==
    /\ pc = "run_download" /\ ~url_valid
    /\ Exit(1, {"invalid_url"})
    /\ UNCHANGED <<ArgVars, FetchVars, SelectionVars, PromptVars, ExecVars>>

UrlAccepted ==
    /\ pc = "run_download" /\ url_valid
    /\ pc' = "dependencies"
    /\ UNCHANGED <<ArgVars, FetchVars, SelectionVars, PromptVars, ExecVars,
                   stderr, exit_status>>

DependenciesFound ==
    /\ pc = "dependencies"
    /\ pc' = "fetch"
    /\ UNCHANGED <<ArgVars, FetchVars, SelectionVars, PromptVars, ExecVars,
                   stderr, exit_status>>

DependenciesFailed ==
    /\ pc = "dependencies"
    /\ Exit(1, {"dependency_error"})
    /\ UNCHANGED <<ArgVars, FetchVars, SelectionVars, PromptVars, ExecVars>>

\* get_video_info_cli: one pass of `for browser in browsers:` that returns
BrowserFetchOk ==
    /\ pc = "fetch" /\ browser_idx <= Len(browsers_to_try)
    /\ browsers_to_try[browser_idx] \in InstalledBrowsers
    /\ \E doc \in RunDocs : video_info' = Some(doc)
    /\ successful_browser' = Some(browsers_to_try[browser_idx])
    /\ pc' = "fetched"
    /\ UNCHANGED <<ArgVars, browser_idx, SelectionVars, PromptVars, ExecVars,
                   stderr, exit_status>>

\* get_video_info_cli: one pass whose exception is swallowed
BrowserFetchFails ==
    /\ pc = "fetch" /\ browser_idx <= Len(browsers_to_try)
    /\ browser_idx' = browser_idx + 1
    /\ UNCHANGED <<pc, ArgVars, successful_browser, video_info, SelectionVars,
                   PromptVars, ExecVars, stderr, exit_status>>

\* get_video_info_cli: the attempt without cookies returns
PlainFetchOk ==
    /\ pc = "fetch" /\ browser_idx > Len(browsers_to_try)
    /\ \E doc \in RunDocs : video_info' = Some(doc)
    /\ pc' = "fetched"
    /\ UNCHANGED <<ArgVars, browser_idx, successful_browser, SelectionVars,
                   PromptVars, ExecVars, stderr, exit_status>>

\* get_video_info_cli: the attempt without cookies fails
PlainFetchFatal ==
    /\ pc = "fetch" /\ browser_idx > Len(browsers_to_try)
    /\ Exit(1, {"fetch_fatal"})
    /\ UNCHANGED <<ArgVars, FetchVars, SelectionVars, PromptVars, ExecVars>>

\* `if not video_info: sys.exit(1)` -- an empty dict is false
InfoEmpty ==
    /\ pc = "fetched" /\ video_info[1] = EmptyDict
    /\ Exit(1, {})
    /\ UNCHANGED <<ArgVars, FetchVars, SelectionVars, PromptVars, ExecVars>>

InfoPresent ==
    /\ pc = "fetched" /\ video_info[1] # EmptyDict
    /\ pc' = "select_video"
    /\ UNCHANGED <<ArgVars, FetchVars, SelectionVars, PromptVars, ExecVars,
                   stderr, exit_status>>

\* video_info.get('formats', [])
Formats == Get(video_info[1], "formats", <<>>)

\* select_streams up to `selected_video`, a track being found
SelectVideoOk ==
    /\ pc = "select_video"
    /\ RankedVideo(Formats, quality) # <<>>
    /\ video_streams' = RankedVideo(Formats, quality)
    /\ selected_video' = FirstOrNone(RankedVideo(Formats, quality))
    /\ stderr' = stderr \union QualityWarnings(VideoCandidates(Formats), quality)
    /\ pc' = "select_audio"
    /\ UNCHANGED <<ArgVars, FetchVars, audio_streams, selected_audio_id,
                   subtitle_list, selected_subtitle_lang, PromptVars, ExecVars,
                   exit_status>>

\* select_streams up to `sys.exit(1)`, no track being found
SelectVideoFatal ==
    /\ pc = "select_video"
    /\ RankedVideo(Formats, quality) = <<>>
    /\ video_streams' = <<>>
    /\ selected_video' = None
    /\ Exit(1, QualityWarnings(VideoCandidates(Formats), quality) \union {"fatal_no_video"})
    /\ UNCHANGED <<ArgVars, FetchVars, audio_streams, selected_audio_id,
                   subtitle_list, selected_subtitle_lang, PromptVars, ExecVars>>

\* the candidate list, the prompt position and the return position of the
\* two calls of interactive_select
Streams(stream_type) == IF stream_type = "audio" THEN audio_streams ELSE subtitle_list
PromptPc(stream_type) == IF stream_type = "audio" THEN "audio_prompt" ELSE "subs_prompt"
ReturnPc(stream_type) == IF stream_type = "audio" THEN "build_subs" ELSE "plan"

\* select_streams lines 245-250 and interactive_select down to its return:
\* no audio candidate, so None comes back without a prompt
AudioListEmpty ==
    /\ pc = "select_audio"
    /\ SortAudio(AudioCandidates(Formats)) = <<>>
    /\ audio_streams' = <<>>
    /\ selected_audio_id' = None
    /\ pc' = "build_subs"
    /\ UNCHANGED <<ArgVars, FetchVars, video_streams, selected_video, subtitle_list,
                   selected_subtitle_lang, PromptVars, ExecVars, stderr, exit_status>>

\* select_streams lines 245-250 and interactive_select down to its first input()
AudioListShown ==
    /\ pc = "select_audio"
    /\ SortAudio(AudioCandidates(Formats)) # <<>>
    /\ audio_streams' = SortAudio(AudioCandidates(Formats))
    /\ prompts' = prompts \union {"audio"}
    /\ choice_str' = <<>> /\ tries' = 0
    /\ pc' = "audio_prompt"
    /\ UNCHANGED <<ArgVars, FetchVars, video_streams, selected_video, selected_audio_id,
                   subtitle_list, selected_subtitle_lang, stdin_eof, ExecVars, stderr,
                   exit_status>>

\* video_info.get('subtitles', {}) and video_info.get('automatic_captions', {})
SubtitlesData == Get(video_info[1], "subtitles", EmptyDict)
AutoCaptionsData == Get(video_info[1], "automatic_captions", EmptyDict)

\* select_streams lines 253-271: [0] on an empty track list, IndexError uncaught
SubtitlesIndexError ==
    /\ pc = "build_subs"
    /\ SubtitleIndexError(SubtitlesData, AutoCaptionsData)
    /\ Exit(1, {"traceback"})
    /\ UNCHANGED <<ArgVars, FetchVars, SelectionVars, PromptVars, ExecVars>>

\* select_streams lines 253-273 and interactive_select down to its return:
\* no subtitle candidate, so None comes back without a prompt
SubtitleListEmpty ==
    /\ pc = "build_subs"
    /\ ~SubtitleIndexError(SubtitlesData, AutoCaptionsData)
    /\ BuildSubtitleList(SubtitlesData, AutoCaptionsData) = <<>>
    /\ subtitle_list' = <<>>
    /\ selected_subtitle_lang' = None
    /\ pc' = "plan"
    /\ UNCHANGED <<ArgVars, FetchVars, video_streams, selected_video, audio_streams,
                   selected_audio_id, PromptVars, ExecVars, stderr, exit_status>>

\* select_streams lines 253-273 and interactive_select down to its first input()
SubtitleListShown ==
    /\ pc = "build_subs"
    /\ ~SubtitleIndexError(SubtitlesData, AutoCaptionsData)
    /\ BuildSubtitleList(SubtitlesData, AutoCaptionsData) # <<>>
    /\ subtitle_list' = BuildSubtitleList(SubtitlesData, AutoCaptionsData)
    /\ prompts' = prompts \union {"subtitulo"}
    /\ choice_str' = <<>> /\ tries' = 0
    /\ pc' = "subs_prompt"
    /\ UNCHANGED <<ArgVars, FetchVars, video_streams, selected_video, audio_streams,
                   selected_audio_id, selected_subtitle_lang, stdin_eof, ExecVars,
                   stderr, exit_status>>

\* a loop that gives up at the second rejected input
RepromptThenGiveUp ==
    IF tries = 0
    THEN /\ tries' = tries + 1
         /\ UNCHANGED <<pc, ArgVars, FetchVars, SelectionVars, prompts, choice_str,
                        stdin_eof, ExecVars, stderr, exit_status>>
    ELSE /\ Exit(1, {"too_many_attempts"})
         /\ UNCHANGED <<ArgVars, FetchVars, SelectionVars, PromptVars, ExecVars>>

\* a pass of the loop that prints a message and goes back to input()
Reprompt ==
    /\ tries < MaxTries
    /\ tries' = tries + 1
    /\ UNCHANGED <<pc, ArgVars, FetchVars, SelectionVars, prompts, choice_str,
                   stdin_eof, ExecVars, stderr, exit_status>>

\* interactive_select returns result, having read line
Return(stream_type, line, result) ==
    /\ choice_str' = line
    /\ tries' = 0
    /\ pc' = ReturnPc(stream_type)
    /\ IF stream_type = "audio"
       THEN selected_audio_id' = result /\ UNCHANGED selected_subtitle_lang
       ELSE selected_subtitle_lang' = result /\ UNCHANGED selected_audio_id
    /\ UNCHANGED <<ArgVars, FetchVars, video_streams, selected_video, audio_streams,
                   subtitle_list, prompts, stdin_eof, ExecVars, stderr, exit_status>>

\* lines 151-153
InputEmpty(stream_type) ==
    /\ pc = PromptPc(stream_type)
    /\ BlankLines # {}
    /\ Reprompt

\* lines 155, 171-172
InputValueError(stream_type) ==
    /\ pc = PromptPc(stream_type)
    /\ ValueErrorLines # {}
    /\ Reprompt

\* lines 161-162, 173-174
InputIndexError(stream_type) ==
    /\ pc = PromptPc(stream_type)
    /\ {line \in NumericLines :
            RaisesIndexError(ChoiceOf[line], Len(Streams(stream_type)))} # {}
    /\ Reprompt

\* lines 157-159
InputSkip(stream_type) ==
    /\ pc = PromptPc(stream_type)
    /\ \E line \in NumericLines :
           /\ IsSkip(ChoiceOf[line])
           /\ Return(stream_type, line, None)

\* lines 164-169
InputChoice(stream_type) ==
    /\ pc = PromptPc(stream_type)
    /\ \E line \in NumericLines :
           /\ Chooses(ChoiceOf[line], Len(Streams(stream_type)))
           /\ Return(stream_type, line,
                     Some(StreamIdentifier(
                         SelectedStream(Streams(stream_type), ChoiceOf[line]),
                         stream_type)))

\* input() at end of input: EOFError is caught nowhere
InputEOF(stream_type) ==
    /\ pc = PromptPc(stream_type)
    /\ stdin_eof' = TRUE
    /\ Exit(1, {"traceback"})
    /\ UNCHANGED <<ArgVars, FetchVars, SelectionVars, prompts, choice_str, tries,
                   ExecVars>>

\* run_download lines 387-404 and download_and_process down to Popen
CompilePlan ==
    /\ pc = "plan"
    /\ command' = Some(BuildCommand(selected_video[1], selected_audio_id,
                                    selected_subtitle_lang, successful_browser))
    /\ choice_str' = <<>>
    /\ pc' = "exec"
    /\ UNCHANGED <<ArgVars, FetchVars, SelectionVars, prompts, tries, stdin_eof,
                   popen_calls,
                   returncode, stderr, exit_status>>

\* run_download returns to main, which returns: the interpreter exits with 0
ReturnToMain(diagnostics) == Exit(0, diagnostics)

\* lines 333-338
DownloadSucceeds ==
    /\ pc = "exec"
    /\ popen_calls' = popen_calls + 1
    /\ returncode' = Some(0)
    /\ ReturnToMain({})
    /\ UNCHANGED <<ArgVars, FetchVars, SelectionVars, PromptVars, command>>

\* lines 333-336, 339-340
DownloadExitsNonZero ==
    /\ pc = "exec"
    /\ popen_calls' = popen_calls + 1
    /\ returncode' = Some(1)
    /\ ReturnToMain({"ytdlp_exit_code"})
    /\ UNCHANGED <<ArgVars, FetchVars, SelectionVars, PromptVars, command>>

\* lines 333, 341-342: Popen raises
DownloadCannotStart ==
    /\ pc = "exec"
    /\ popen_calls' = popen_calls + 1
    /\ returncode' = None
    /\ ReturnToMain({"unexpected_error"})
    /\ UNCHANGED <<ArgVars, FetchVars, SelectionVars, PromptVars, command>>

Next ==
    \/ UrlRejected
    \/ UrlAccepted
    \/ DependenciesFound
    \/ DependenciesFailed
    \/ BrowserFetchOk
    \/ BrowserFetchFails
    \/ PlainFetchOk
    \/ PlainFetchFatal
    \/ InfoEmpty
    \/ InfoPresent
    \/ SelectVideoOk
    \/ SelectVideoFatal
    \/ AudioListEmpty
    \/ AudioListShown
    \/ SubtitlesIndexError
    \/ SubtitleListEmpty
    \/ SubtitleListShown
    \/ \E t \in StreamTypes : InputEmpty(t)
    \/ \E t \in StreamTypes : InputValueError(t)
    \/ \E t \in StreamTypes : InputIndexError(t)
    \/ \E t \in StreamTypes : InputSkip(t)
    \/ \E t \in StreamTypes : InputChoice(t)
    \/ \E t \in StreamTypes : InputEOF(t)
    \/ CompilePlan
    \/ DownloadSucceeds
    \/ DownloadExitsNonZero
    \/ DownloadCannotStart

Spec == Init /\ [][Next]_vars

----------------------------------------------------------------------------
(* The video selector on its own: select_streams entered with any of a    *)
(* wider family of formats lists and quality strings.                     *)

\* codec fields: video-only, combined, audio-only
CodecKinds ==
    { [vcodec |-> "avc1", acodec |-> "none"],
      [vcodec |-> "avc1", acodec |-> "mp4a"],
      [vcodec |-> "none", acodec |-> "mp4a"] }

VideoKinds ==
    {c @@ h @@ r @@ b :
        c \in CodecKinds, h \in OptField("height", {1, 2}),
        r \in OptField("fps", {1}), b \in OptField("tbr", {1})}

VideoFormats == {WithIds(k) : k \in SeqsUpTo(VideoKinds, MaxVideoFormats)}

VideoQualities ==
    {None, Some(<<>>), Some(<<"p">>), Some(<<"1", "p">>), Some(<<"2">>),
     Some(<<"p", "0", "1">>), Some(<<"1", "2">>)}

\* the state in which run_download calls select_streams
AtSelectStreams(doc, q) ==
    /\ pc = "select_video"
    /\ url_valid = TRUE
    /\ quality = q
    /\ browser_idx = Len(browsers_to_try) + 1
    /\ successful_browser = None
    /\ video_info = Some(doc)
    /\ video_streams = <<>>
    /\ selected_video = None
    /\ audio_streams = <<>>
    /\ selected_audio_id = None
    /\ subtitle_list = <<>>
    /\ selected_subtitle_lang = None
    /\ prompts = {}
    /\ choice_str = <<>>
    /\ tries = 0
    /\ stdin_eof = FALSE
    /\ command = None
    /\ popen_calls = 0
    /\ returncode = None
    /\ stderr = {}
    /\ exit_status = None

InitVideo ==
    \E fs \in VideoFormats, q \in VideoQualities :
        AtSelectStreams(Title @@ [formats |-> fs], q)

NextVideo ==
    \/ SelectVideoOk
    \/ SelectVideoFatal

SpecVideo == InitVideo /\ [][NextVideo]_vars

----------------------------------------------------------------------------
(* The subtitle list builder on its own: select_streams at line 253 with  *)
(* any of a wider family of subtitle mappings.                            *)

SubTags ==
    { Es, En,
      <<"f", "i", "l">>,
      <<"e", "-", "s">>,
      <<"e", "s", "p", "a">>,
      <<"e", "s", "-", "4", "1", "9">> }

ManualLists == {<<>>, <<ManualVtt>>, <<ManualSrt, ManualVtt>>}
AutoLists == {<<>>, <<AutoVtt>>, <<AutoJson, AutoVtt>>}

\* the mappings from some of the tags to track lists
Mappings(tags, lists) == UNION {[keys -> lists] : keys \in SUBSET tags}

\* the pairs of mappings whose tags are, together, exactly those of tags
PairsOn(tags) ==
    {pair \in Mappings(tags, ManualLists) \X Mappings(tags, AutoLists) :
        DOMAIN pair[1] \union DOMAIN pair[2] = tags}

SubtitlePairs ==
    UNION {PairsOn(tags) : tags \in {t \in SUBSET SubTags : Cardinality(t) <= MaxSubTags}}

OneVideo == WithIds(<<[vcodec |-> "avc1", acodec |-> "none", height |-> 1]>>)

\* the state in which select_streams reaches line 253, the formats being
\* one video-only track (so no audio prompt was issued)
InitSubs ==
    \E pair \in SubtitlePairs :
        /\ pc = "build_subs"
        /\ url_valid = TRUE
        /\ quality = None
        /\ browser_idx = Len(browsers_to_try) + 1
        /\ successful_browser = None
        /\ video_info = Some(Title @@ [formats |-> OneVideo, subtitles |-> pair[1],
                                       automatic_captions |-> pair[2]])
        /\ video_streams = OneVideo
        /\ selected_video = Some(OneVideo[1])
        /\ audio_streams = <<>>
        /\ selected_audio_id = None
        /\ subtitle_list = <<>>
        /\ selected_subtitle_lang = None
        /\ prompts = {}
        /\ choice_str = <<>>
        /\ tries = 0
        /\ stdin_eof = FALSE
        /\ command = None
        /\ popen_calls = 0
        /\ returncode = None
        /\ stderr = {}
        /\ exit_status = None

NextSubs ==
    \/ SubtitlesIndexError
    \/ SubtitleListEmpty
    \/ SubtitleListShown

SpecSubs == InitSubs /\ [][NextSubs]_vars

----------------------------------------------------------------------------
(* Properties. *)

\* interactive_select has just returned to select_streams, having prompted
ReturnedFrom(stream_type) == pc = ReturnPc(stream_type) /\ stream_type \in prompts

\* what the call returned
Result(stream_type) ==
    IF stream_type = "audio" THEN selected_audio_id ELSE selected_subtitle_lang

\* the identifier of the k-th listed candidate
ListedIdentifier(stream_type, k) ==
    IF stream_type = "audio" THEN audio_streams[k]["format_id"]
    ELSE subtitle_list[k]["lang_code"]

\* C1: whenever interactive_select returns from a non-empty list, the line
\* it read is not blank and parses to an integer, and either the integer is
\* 0 and nothing is selected, or it is some k in 1..n and the identifier of
\* the k-th listed candidate is returned.  So blank, non-numeric, negative
\* and too large inputs never make it return.
C1_ReturnsOnlyOnSkipOrListedChoice ==
    \A t \in StreamTypes :
        ReturnedFrom(t) =>
            LET n == Len(Streams(t))
                parsed == ParseInt(choice_str)
            IN  /\ n > 0
                /\ Strip(choice_str) # <<>>
                /\ parsed.ok
                /\ \/ parsed.val = 0 /\ Result(t) = None
                   \/ /\ parsed.val \in 1..n
                      /\ Result(t) = Some(ListedIdentifier(t, parsed.val))

\* C1 witness: the second of at least two audio candidates was chosen
C1_Witness ==
    /\ ReturnedFrom("audio")
    /\ Len(audio_streams) >= 2
    /\ ParseInt(choice_str).val = 2
    /\ selected_audio_id = Some(audio_streams[2]["format_id"])

\* in every waiting state the run is alive and can still end in skip or choice
C2_StillAccepting ==
    \A t \in StreamTypes :
        pc = PromptPc(t) =>
            /\ exit_status = None
            /\ ENABLED InputSkip(t)
            /\ ENABLED InputChoice(t)

\* a pass that reads a line either returns or is back at the same prompt
\* with nothing changed but the count of rejected inputs
C2_PassReturnsOrReprompts ==
    \A t \in StreamTypes :
        (pc = PromptPc(t) /\ ~stdin_eof') =>
            \/ /\ pc' = ReturnPc(t)
               /\ exit_status' = None
            \/ /\ pc' = pc
               /\ tries' = tries + 1
               /\ exit_status' = None
               /\ UNCHANGED <<SelectionVars, prompts, ExecVars, stderr>>

\* C2: the selection loop never gives up: a pass over a rejected input
\* leaves the selector waiting at the same prompt with the run alive,
\* however many inputs were rejected before, and in every waiting state a
\* skip and a listed choice are still accepted.
C2_LoopNeverEscalates == []C2_StillAccepting /\ [][C2_PassReturnsOrReprompts]_vars

\* C2 witness: waiting again after MaxTries rejected inputs in a row
C2_Witness ==
    /\ pc = "subs_prompt"
    /\ tries = MaxTries
    /\ exit_status = None

\* select_streams has gone past the video selection
VideoSelectionDone == video_info # None /\ pc \notin {"fetched", "select_video"}

\* the ranking key of a candidate, an absent field counting as 0
KeyOf(f) ==
    <<IF "height" \in DOMAIN f THEN f["height"] ELSE 0,
      IF "fps" \in DOMAIN f THEN f["fps"] ELSE 0,
      IF "tbr" \in DOMAIN f THEN f["tbr"] ELSE 0>>

\* key a ranks strictly below key b: height, then frame rate, then bitrate
KeyBelow(a, b) ==
    \/ a[1] < b[1]
    \/ a[1] = b[1] /\ a[2] < b[2]
    \/ a[1] = b[1] /\ a[2] = b[2] /\ a[3] < b[3]

\* f is the first candidate of list with the greatest key
IsFirstBest(f, list) ==
    \E i \in 1..Len(list) :
        /\ list[i] = f
        /\ \A j \in 1..Len(list) : ~KeyBelow(KeyOf(list[i]), KeyOf(list[j]))
        /\ \A j \in 1..(i - 1) : KeyOf(list[j]) # KeyOf(list[i])

\* the quality argument holds at least one digit
HeightRequested == quality # None /\ \E i \in 1..Len(quality[1]) : quality[1][i] \in Digits

\* the candidates whose height is the requested one
Matching(list) ==
    {i \in 1..Len(list) :
        "height" \in DOMAIN list[i] /\ list[i]["height"] = QualityVal(quality)}

\* C3: with a non-empty video candidate list and a quality that names a
\* height, select_streams does not fail.  If no candidate has that height it
\* warns and returns a candidate of greatest key of the whole list; if some
\* candidate has it, the returned track has that height.
C3_QualityIsAPreference ==
    (VideoSelectionDone /\ HeightRequested /\ VideoCandidates(Formats) # <<>>) =>
        LET cands == VideoCandidates(Formats)
        IN  /\ exit_status = None
            /\ selected_video # None
            /\ IF Matching(cands) = {}
               THEN /\ "quality_not_found" \in stderr
                    /\ IsFirstBest(selected_video[1], cands)
               ELSE /\ "quality_not_found" \notin stderr
                    /\ "height" \in DOMAIN selected_video[1]
                    /\ selected_video[1]["height"] = QualityVal(quality)

\* C3 witness: a fallback among candidates of different heights
C3_Witness ==
    /\ VideoSelectionDone /\ HeightRequested
    /\ Len(VideoCandidates(Formats)) >= 2
    /\ Matching(VideoCandidates(Formats)) = {}
    /\ "quality_not_found" \in stderr
    /\ selected_video # None
    /\ \E i \in 1..Len(VideoCandidates(Formats)) :
           KeyBelow(KeyOf(VideoCandidates(Formats)[i]), KeyOf(selected_video[1]))

\* no format of the document bears video
NoVideoBearingTrack ==
    /\ video_info # None
    /\ \A i \in 1..Len(Formats) :
           "vcodec" \in DOMAIN Formats[i] /\ Formats[i]["vcodec"] = "none"

\* C4: when no format bears video, no video is ever selected, no prompt is
\* issued and no download command is built or started: once select_streams
\* has run, the run has terminated with status 1 -- whatever the quality.
C4_NoVideoIsFatal ==
    NoVideoBearingTrack =>
        /\ selected_video = None
        /\ prompts = {}
        /\ command = None
        /\ popen_calls = 0
        /\ \/ pc \in {"fetched", "select_video"}
           \/ pc = "exited" /\ exit_status = Some(1)

\* C4 witness: audio tracks only and a quality constraint, ended fatally
C4_Witness ==
    /\ NoVideoBearingTrack
    /\ Len(Formats) >= 1
    /\ quality # None
    /\ pc = "exited"
    /\ "fatal_no_video" \in stderr

\* C5: the selected video track is the first candidate of greatest key
\* (height, frame rate, bitrate; absent counts as 0) of the filtered-or-
\* unfiltered candidate list, taken in the order of the metadata.
C5_FirstOfGreatestKey ==
    (VideoSelectionDone /\ selected_video # None) =>
        IsFirstBest(selected_video[1], QualityFilter(VideoCandidates(Formats), quality))

\* C5 witness: two candidates tie on the greatest key
C5_Witness ==
    /\ VideoSelectionDone
    /\ selected_video # None
    /\ \E i \in 1..Len(VideoCandidates(Formats)) :
           /\ VideoCandidates(Formats)[i] # selected_video[1]
           /\ KeyOf(VideoCandidates(Formats)[i]) = KeyOf(selected_video[1])
           /\ KeyOf(selected_video[1])[2] > 0

\* the audio-bearing formats whose language tag starts with the preferred prefix
PreferredAudio ==
    {i \in 1..Len(Formats) :
        /\ ~("acodec" \in DOMAIN Formats[i] /\ Formats[i]["acodec"] = "none")
        /\ "language" \in DOMAIN Formats[i]
        /\ Len(Formats[i]["language"]) >= Len(Es)
        /\ SubSeq(Formats[i]["language"], 1, Len(Es)) = Es}

\* the audio bitrate of the i-th format, 0 when absent
AbrOf(i) == IF "abr" \in DOMAIN Formats[i] THEN Formats[i]["abr"] ELSE 0

\* C6: once the audio selection is over, if some audio track carries the
\* preferred language prefix then the user was not asked and the selected
\* track is one of those, of the highest bitrate among them.
C6_PreferredLanguageWithoutAsking ==
    (pc = "build_subs" /\ PreferredAudio # {}) =>
        /\ "audio" \notin prompts
        /\ \E i \in PreferredAudio :
               /\ selected_audio_id = <<Formats[i]["format_id"]>>
               /\ \A j \in PreferredAudio : AbrOf(j) <= AbrOf(i)

\* C7: the download command's format selector is the video id, "+", and
\* the chosen audio id -- or "bestaudio" when no audio id was chosen; it is
\* never the video id alone.
C7_SelectorAlwaysPairsAudio ==
    command # None =>
        /\ selected_video # None
        /\ LET vid == selected_video[1]["format_id"]
           IN  /\ command[1].f # vid
               /\ IF selected_audio_id = None
                  THEN command[1].f = vid \o "+bestaudio"
                  ELSE command[1].f = vid \o "+" \o selected_audio_id[1]

\* C7 witness: a command built after the user skipped the audio choice
C7_Witness ==
    /\ command # None
    /\ "audio" \in prompts
    /\ audio_streams # <<>>
    /\ selected_audio_id = None

\* the diagnostics of a failed external tool
ToolFailures == {"fetch_fatal", "ytdlp_exit_code", "unexpected_error"}

\* C8: a run in which an external tool failed ends with a non-zero status,
\* the download command having been started at most once.
C8_ToolFailureEndsNonZero ==
    (pc = "exited" /\ stderr \cap ToolFailures # {}) =>
        /\ exit_status # None
        /\ exit_status[1] # 0
        /\ popen_calls <= 1

\* the tags of both mappings that are kept: not (longer than 3 and hyphen-free)
KeptTags ==
    {lang \in DOMAIN SubtitlesData \union DOMAIN AutoCaptionsData :
        ~(Len(lang) > 3 /\ \A i \in 1..Len(lang) : lang[i] # "-")}

\* tag a comes before tag b in the order of Python's str comparison
TagBefore(a, b) ==
    \/ \E i \in 1..Len(a) :
           /\ i <= Len(b)
           /\ SubSeq(a, 1, i - 1) = SubSeq(b, 1, i - 1)
           /\ Ord(a[i]) < Ord(b[i])
    \/ Len(a) < Len(b) /\ a = SubSeq(b, 1, Len(a))

\* the entry made of track for lang: its tag, its name (the tag when the
\* track has none) followed by mark, and the track's own fields
MadeFrom(entry, track, lang, mark) ==
    /\ entry["lang_code"] = lang
    /\ entry["name"] = (IF "name" \in DOMAIN track THEN track["name"] ELSE lang) \o mark
    /\ entry["ext"] = track["ext"]

\* the subtitle list has been built
SubtitleListBuilt == pc \in {"subs_prompt", "plan"}

\* C9: the subtitle list holds one entry per kept tag and nothing else, in
\* ascending tag order; a tag of the manual mapping yields that mapping's
\* first track marked "(manual)", any other tag the auto-caption mapping's
\* first track marked "(auto)".
C9_SubtitleListPerTag ==
    SubtitleListBuilt =>
        /\ {subtitle_list[i]["lang_code"] : i \in 1..Len(subtitle_list)} = KeptTags
        /\ Len(subtitle_list) = Cardinality(KeptTags)
        /\ \A i \in 1..(Len(subtitle_list) - 1) :
               TagBefore(subtitle_list[i]["lang_code"], subtitle_list[i + 1]["lang_code"])
        /\ \A i \in 1..Len(subtitle_list) :
               LET entry == subtitle_list[i]
                   lang == entry["lang_code"]
               IN  IF lang \in DOMAIN SubtitlesData
                   THEN MadeFrom(entry, SubtitlesData[lang][1], lang,
                                 <<" ", "(", "m", "a", "n", "u", "a", "l", ")">>)
                   ELSE MadeFrom(entry, AutoCaptionsData[lang][1], lang,
                                 <<" ", "(", "a", "u", "t", "o", ")">>)

\* C9 witness: a tag of both mappings listed from tracks that differ, and
\* a long hyphen-free tag left out
C9_Witness ==
    /\ pc = "subs_prompt"
    /\ \E lang \in DOMAIN SubtitlesData \cap DOMAIN AutoCaptionsData :
           /\ lang \in KeptTags
           /\ AutoCaptionsData[lang] # <<>>
           /\ SubtitlesData[lang][1] # AutoCaptionsData[lang][1]
    /\ (DOMAIN SubtitlesData \union DOMAIN AutoCaptionsData) \ KeptTags # {}

\* C10: a run over a non-empty metadata document whose input did not run
\* out, and that ended before a download command was built, ended on the
\* fatal no-video condition.
C10_OnlyNoVideoCanFail ==
    (/\ pc = "exited"
     /\ video_info # None
     /\ video_info[1] # EmptyDict
     /\ ~stdin_eof
     /\ command = None) =>
        "fatal_no_video" \in stderr

====
